---- MODULE Spec2Model ----
(***************************************************************************)
(* Model of the DispmanX video scaling filter (modules/hw/mmal/scale.c):   *)
(* OpenFilter (format negotiation), Filter (one scale operation, stepped   *)
(* call by call through the accelerator API) and the YUV palette to RGB    *)
(* palette conversion done inside Filter.                                  *)
(*                                                                         *)
(* The accelerator (bcm_host, vc_dispmanx calls) is an external library.   *)
(* It is modelled by its handle contract: a create/open/start/add call     *)
(* hands out a handle that stays live until the matching delete/close/     *)
(* submit/remove call; a call given an invalid handle fails; element       *)
(* placement and removal belong to an update that is open.  Filter ignores *)
(* every return value, so a failing call does not change its control flow. *)
(***************************************************************************)
EXTENDS Integers, Sequences, FiniteSets, TLC

(***************************************************************************)
(* Bounds of the model.                                                    *)
(***************************************************************************)
MaxDim == 1        \* widths and heights range over 0..MaxDim
MaxFaults == 1     \* accelerator calls that fail inside one Filter call
MaxEntries == 1    \* i_entries of the input palette ranges over 0..MaxEntries
MaxBuffers == 3    \* buffers the audio FIFO is given

\* aout.c lines 35-36
FRAME_SIZE == 2048
A52_FRAME_NB == 1536

Chromas == {"YUVP", "YUVA", "RGB32", "RGBA", "I420"}
Orientations == {"NORMAL", "ROTATED_90"}
Dims == 0..MaxDim

VARIABLES
    fmt_in,            \* filter->fmt_in.video: i_chroma, orientation, i_width, i_height
    fmt_out,           \* filter->fmt_out.video
    fmt_req,           \* fmt_out as it was when the current call started
    pf_video_filter,   \* "NULL" or "Filter"
    bcm_host_inited,   \* bcm_host_init() has run
    open_ret,          \* return value of OpenFilter: "none", "VLC_SUCCESS", "VLC_EGENERIC"
    pc,                \* position inside Filter; "idle" between calls
    outcome,           \* how the latest Filter call returned: "none", "reject", "nomem", "done"
    prev,              \* how the call before the latest returned
    pic,               \* input picture of the call: "NULL", "held", "released"
    pic_dst,           \* output picture of the call: "NULL", "allocated"
    ret,               \* value returned by the last Filter call: "none", "NULL", "pic_dst"
    picReleases,       \* picture_Release(pic) calls made by the current call
    img_type,          \* VC_IMAGE_TYPE_T chosen at lines 126-132
    p_palette,         \* fmt_in->p_palette: sequence of <<Y, U, V, A>> entries
    palette,           \* static unsigned int palette[]: survives across calls
    src_palette,       \* palette data the source resource of the current call received
    live,              \* accelerator objects created by the current call that are live
    log,               \* accelerator and picture calls of the current call, in order
    nFaults,           \* injected accelerator failures in the current call
    nCreate,           \* vc_dispmanx_resource_create calls of the current call
    nDelete,           \* vc_dispmanx_resource_delete calls of the current call
    entry,             \* palette conversion check: the <<Y, U, V, A>> entry
    word,              \* palette conversion check: the converted word, or <<>>
    pf_setformat,      \* p_aout->output.pf_setformat: "NULL" or "SetFormat"
    pf_play,           \* p_aout->output.pf_play: "NULL" or "Play"
    output,            \* p_aout->output: i_format, i_nb_samples, i_bytes_per_frame, i_frame_length
    fifo,              \* p_aout->output.fifo: the buffers queued, first in first
    fifo_in,           \* the buffers the FIFO was given
    freed,             \* the buffers given to aout_BufferFree, in order
    nPlay,             \* calls of Play made
    thr                \* two concurrent calls of Filter at lines 155-165: pc, i, p_palette, pushed

vars == <<fmt_in, fmt_out, fmt_req, pf_video_filter, bcm_host_inited, open_ret,
          pc, outcome, prev, pic, pic_dst, ret, picReleases, img_type, p_palette,
          palette, src_palette, live, log, nFaults,
          nCreate, nDelete, entry, word,
          pf_setformat, pf_play, output, fifo, fifo_in, freed, nPlay, thr>>

fmtVars == <<fmt_in, pf_video_filter, bcm_host_inited, open_ret>>
convVars == <<entry, word>>
aoutVars == <<pf_setformat, pf_play, output, fifo, fifo_in, freed, nPlay>>
raceVars == <<thr>>

(***************************************************************************)
(* Small helpers.                                                          *)
(***************************************************************************)
Sgn(n) == IF n > 0 THEN 1 ELSE IF n < 0 THEN -1 ELSE 0
Abs(n) == IF n < 0 THEN -n ELSE n

\* index of the first occurrence of op in a call log, 0 when absent
RECURSIVE PosFrom(_, _, _)
PosFrom(s, op, i) ==
    IF i > Len(s) THEN 0
    ELSE IF s[i].op = op THEN i
    ELSE PosFrom(s, op, i + 1)
Pos(s, op) == PosFrom(s, op, 1)
Called(op) == Pos(log, op) > 0
Before(a, b) ==
    LET pa == Pos(log, a)
        pb == Pos(log, b)
    IN  pa > 0 /\ pb > 0 /\ pa < pb
Succeeded(op) == \E i \in 1..Len(log) : log[i].op = op /\ log[i].ok

(***************************************************************************)
(* OpenFilter, scale.c lines 47-70.                                        *)
(***************************************************************************)
\* the chroma test with the test of the output chroma left out
ChromaSupportedAnyOut(cin, cout) ==
    ~ (cin # "YUVP" /\ cin # "YUVA" /\ cin # "RGB32" /\ cin # "RGBA")

\* the chroma test of lines 51-55
ChromaSupported(cin, cout) ==
    ~ ( (cin # "YUVP" /\ cin # "YUVA" /\ cin # "RGB32" /\ cin # "RGBA")
        \/ cout # "RGBA" )

\* the orientation test of line 59
OrientationSupported(oin, oout) == ~ (oin # oout)

\* OpenFilter with the bcm_host_init() of line 62 left out
OpenFilterNoInit ==
    /\ open_ret = "none"
    /\ IF ~ ChromaSupported(fmt_in.i_chroma, fmt_out.i_chroma)
       THEN /\ open_ret' = "VLC_EGENERIC"
            /\ UNCHANGED <<bcm_host_inited, pf_video_filter>>
       ELSE IF ~ OrientationSupported(fmt_in.orientation, fmt_out.orientation)
       THEN /\ open_ret' = "VLC_EGENERIC"
            /\ UNCHANGED <<bcm_host_inited, pf_video_filter>>
       ELSE /\ UNCHANGED bcm_host_inited
            /\ pf_video_filter' = "Filter"
            /\ open_ret' = "VLC_SUCCESS"
    /\ UNCHANGED <<fmt_in, fmt_out, fmt_req, pc, outcome, prev, pic, pic_dst, ret,
                   picReleases, img_type, p_palette, palette, src_palette,
                   live, log, nFaults, nCreate, nDelete,
                   entry, word>>
    /\ UNCHANGED aoutVars /\ UNCHANGED raceVars

OpenFilter ==
    /\ open_ret = "none"
    /\ IF ~ ChromaSupported(fmt_in.i_chroma, fmt_out.i_chroma)
       THEN /\ open_ret' = "VLC_EGENERIC"
            /\ UNCHANGED <<bcm_host_inited, pf_video_filter>>
       ELSE IF ~ OrientationSupported(fmt_in.orientation, fmt_out.orientation)
       THEN /\ open_ret' = "VLC_EGENERIC"
            /\ UNCHANGED <<bcm_host_inited, pf_video_filter>>
       ELSE /\ bcm_host_inited' = TRUE
            /\ pf_video_filter' = "Filter"
            /\ open_ret' = "VLC_SUCCESS"
    /\ UNCHANGED <<fmt_in, fmt_out, fmt_req, pc, outcome, prev, pic, pic_dst, ret,
                   picReleases, img_type, p_palette, palette, src_palette,
                   live, log, nFaults, nCreate, nDelete,
                   entry, word>>
    /\ UNCHANGED aoutVars /\ UNCHANGED raceVars

(***************************************************************************)
(* Palette conversion, scale.c lines 72 and 157-163.                       *)
(*                                                                         *)
(* The three channel expressions are evaluated in double and handed to     *)
(* the (uint8_t) casts of DPM_RGBA32.  The model computes in thousandths.  *)
(* The cast truncates toward zero; when the truncated value is outside     *)
(* 0..255 the conversion is undefined in C (C11 6.3.1.4), and builds       *)
(* differ: x86 converts through a signed 32-bit integer and keeps the low  *)
(* byte (the value modulo 256), ARM converts with an unsigned saturating   *)
(* instruction, which gives 0 for every negative value.                    *)
(***************************************************************************)
SampleChroma == {0, 128, 210, 255}      \* U and V values the model converts
SampleAlpha == {0, 128, 255}            \* A values the model converts
Bytes == 0..255

\* truncation toward zero of m thousandths
Trunc1000(m) == Sgn(m) * (Abs(m) \div 1000)

\* (Y, U) pairs of the sampled domain where the exact value of the R
\* expression is an integer and its binary64 evaluation falls just below it
\* in magnitude: 1.164*(7-16) + 2.018*(210-128) evaluates to
\* 154.99999999999997, and 1.164*(152-16) + 2.018*(0-128) to
\* -99.99999999999997.  The G and B expressions have no such point for
\* U, V in SampleChroma.
RBinary64Short == {<<7, 210>>, <<152, 0>>}

\* the R expression with the luma offset of 16 left out
RMilliNoOffset(y, u) == 1164 * y + 2018 * (u - 128)

\* line 160: 1.164 * (yuv_pal[0] - 16) + 2.018 * (yuv_pal[1] - 128)
RMilli(y, u) == 1164 * (y - 16) + 2018 * (u - 128)
\* line 161: 1.164 * (Y - 16) - 0.813 * (V - 128) - 0.391 * (U - 128)
GMilli(y, u, v) == 1164 * (y - 16) - 813 * (v - 128) - 391 * (u - 128)
\* line 162: 1.163 * (yuv_pal[0] - 16) + 1.596 * (yuv_pal[2] - 128)
BMilli(y, v) == 1163 * (y - 16) + 1596 * (v - 128)

\* integral part of each channel value as the cast sees it
RInt(y, u) ==
    IF <<y, u>> \in RBinary64Short
    THEN Trunc1000(RMilli(y, u)) - Sgn(RMilli(y, u))
    ELSE Trunc1000(RMilli(y, u))
GInt(y, u, v) == Trunc1000(GMilli(y, u, v))
BInt(y, v) == Trunc1000(BMilli(y, v))

\* (uint8_t) applied to a double whose integral part is t
CastOutcomes(t) ==
    IF t \in Bytes THEN {t}
    ELSE IF t < 0 THEN {t % 256, 0}
    ELSE {t % 256}

\* DPM_RGBA32(a, r, g, b), line 72: the word as its four bytes, bits 24-31
\* first, bits 0-7 last
DPM_RGBA32(a, r, g, b) == <<a % 256, r, g, b>>

\* the words one palette entry <<Y, U, V, A>> can convert to, lines 158-162
ConvertOutcomes(e) ==
    { DPM_RGBA32(e[4], r, g, b) :
        r \in CastOutcomes(RInt(e[1], e[2])),
        g \in CastOutcomes(GInt(e[1], e[2], e[3])),
        b \in CastOutcomes(BInt(e[1], e[3])) }

\* the loop of lines 157-163 over a whole palette
RECURSIVE ConvertSeq(_)
ConvertSeq(pal) ==
    IF pal = <<>> THEN {<<>>}
    ELSE { <<w>> \o rest : w \in ConvertOutcomes(Head(pal)),
                           rest \in ConvertSeq(Tail(pal)) }

\* static unsigned int palette[256], line 81: larger than any palette the
\* model converts, as the 256 slots are for i_entries <= 256
PALETTE_SIZE == MaxEntries + 1
ZeroWord == <<0, 0, 0, 0>>

\* palette entries and palettes Filter is fed in the model
PalEntries == {<<235, 128, 128, 255>>, <<126, 128, 128, 128>>}
RECURSIVE SeqsUpTo(_, _)
SeqsUpTo(S, n) ==
    IF n = 0 THEN {<<>>}
    ELSE SeqsUpTo(S, n - 1) \cup
         { Append(q, x) : q \in {t \in SeqsUpTo(S, n - 1) : Len(t) = n - 1}, x \in S }
Palettes == SeqsUpTo(PalEntries, MaxEntries)

(***************************************************************************)
(* video_format_ScaleCropAr(fmt_out, fmt_in), called at line 111.  Its     *)
(* code is not part of the sources at hand; it is modelled as the step 1   *)
(* of the design describes it: the largest box with the input's aspect     *)
(* ratio that fits inside the requested output box.                        *)
(***************************************************************************)
ScaleCropArWidth(ow, oh, iw, ih) ==
    IF iw * oh <= ow * ih THEN (oh * iw) \div ih ELSE ow
ScaleCropArHeight(ow, oh, iw, ih) ==
    IF iw * oh <= ow * ih THEN oh ELSE (ow * ih) \div iw
video_format_ScaleCropAr(dst, src) ==
    [dst EXCEPT
        !.i_width = ScaleCropArWidth(dst.i_width, dst.i_height,
                                     src.i_width, src.i_height),
        !.i_height = ScaleCropArHeight(dst.i_width, dst.i_height,
                                       src.i_width, src.i_height)]

(***************************************************************************)
(* Filter, scale.c lines 73-191.                                           *)
(***************************************************************************)
\* the early returns with the test of the output size left out
FastRejectNoOut(p) ==
    \/ p = "NULL"
    \/ fmt_in.i_height = 0 \/ fmt_in.i_width = 0

\* the three early returns of lines 100-109
FastReject(p) ==
    \/ p = "NULL"
    \/ fmt_in.i_height = 0 \/ fmt_in.i_width = 0
    \/ fmt_out.i_height = 0 \/ fmt_out.i_width = 0

\* a call of Filter has returned and no other has started
Returned == pc = "idle" /\ outcome # "none"

\* a call starts on a filter whose pf_video_filter OpenFilter has set
CanCall == pc = "idle" /\ pf_video_filter = "Filter"

\* the locals of a new call: nothing created, nothing called yet
NewCall ==
    /\ prev' = outcome
    /\ fmt_req' = fmt_out
    /\ live' = {}
    /\ log' = <<>>
    /\ nFaults' = 0
    /\ picReleases' = 0
    /\ pic_dst' = "NULL"
    /\ img_type' = "none"
    /\ src_palette' = <<>>
    /\ nCreate' = 0
    /\ nDelete' = 0

\* lines 100-109: return NULL, nothing else
FilterFastReject(p) ==
    /\ CanCall
    /\ FastReject(p)
    /\ NewCall
    /\ pic' = p
    /\ ret' = "NULL"
    /\ outcome' = "reject"
    /\ UNCHANGED <<pc, fmt_out, p_palette, palette>>
    /\ UNCHANGED fmtVars /\ UNCHANGED convVars /\ UNCHANGED aoutVars /\ UNCHANGED raceVars

\* the entry of Filter with the video_format_ScaleCropAr of line 111 left out
FilterNoScaleCrop(p, pal) ==
    /\ CanCall
    /\ ~ FastReject(p)
    /\ NewCall
    /\ pic' = p
    /\ ret' = "none"
    /\ p_palette' = IF fmt_in.i_chroma = "YUVP" THEN pal ELSE <<>>
    /\ fmt_out' = fmt_out
    /\ pc' = "NewPicture"
    /\ UNCHANGED <<outcome, palette>>
    /\ UNCHANGED fmtVars /\ UNCHANGED convVars /\ UNCHANGED aoutVars /\ UNCHANGED raceVars

\* lines 100-111 when no early return is taken; the palette of fmt_in is
\* whatever the owner of the filter has put there for this picture
FilterScaleCrop(p, pal) ==
    /\ CanCall
    /\ ~ FastReject(p)
    /\ NewCall
    /\ pic' = p
    /\ ret' = "none"
    /\ p_palette' = IF fmt_in.i_chroma = "YUVP" THEN pal ELSE <<>>
    /\ fmt_out' = video_format_ScaleCropAr(fmt_out, fmt_in)
    /\ pc' = "NewPicture"
    /\ UNCHANGED <<outcome, palette>>
    /\ UNCHANGED fmtVars /\ UNCHANGED convVars /\ UNCHANGED aoutVars /\ UNCHANGED raceVars

\* filter_NewPicture with the picture_Release of line 116 left out
NewPictureNoRelease(ok) ==
    /\ pc = "NewPicture"
    /\ IF ok
       THEN /\ pic_dst' = "allocated"
            /\ pc' = "resource_create_dest"
            /\ UNCHANGED <<pic, picReleases, ret, outcome>>
       ELSE /\ ret' = "NULL"
            /\ outcome' = "nomem"
            /\ pc' = "idle"
            /\ UNCHANGED <<pic, picReleases, pic_dst>>
    /\ UNCHANGED <<fmt_out, fmt_req, prev, img_type, p_palette, palette, src_palette,
                   live, log, nFaults, nCreate, nDelete>>
    /\ UNCHANGED fmtVars /\ UNCHANGED convVars /\ UNCHANGED aoutVars /\ UNCHANGED raceVars

\* lines 114-118: filter_NewPicture, and the return when it fails
NewPicture(ok) ==
    /\ pc = "NewPicture"
    /\ IF ok
       THEN /\ pic_dst' = "allocated"
            /\ pc' = "resource_create_dest"
            /\ UNCHANGED <<pic, picReleases, ret, outcome>>
       ELSE /\ pic' = "released"
            /\ picReleases' = picReleases + 1
            /\ ret' = "NULL"
            /\ outcome' = "nomem"
            /\ pc' = "idle"
            /\ UNCHANGED pic_dst
    /\ UNCHANGED <<fmt_out, fmt_req, prev, img_type, p_palette, palette, src_palette,
                   live, log, nFaults, nCreate, nDelete>>
    /\ UNCHANGED fmtVars /\ UNCHANGED convVars /\ UNCHANGED aoutVars /\ UNCHANGED raceVars

(***************************************************************************)
(* The statements of Filter after the output picture is obtained, in       *)
(* program order (lines 120-190).  Each is one step of the model.          *)
(***************************************************************************)
\* the statements with the display closed after the resources are deleted
ProgramCloseLast ==
    << "resource_create_dest", "display_open_offscreen", "img_type",
       "update_start", "resource_create_src", "resource_write_data",
       "palette_convert", "resource_set_palette", "element_add",
       "update_submit_sync", "resource_read_data", "element_remove",
       "resource_delete_src", "resource_delete_dest", "display_close",
       "picture_CopyProperties", "picture_Release", "return" >>

\* the statements with the read-back issued before the submit
ProgramReadEarly ==
    << "resource_create_dest", "display_open_offscreen", "img_type",
       "update_start", "resource_create_src", "resource_write_data",
       "palette_convert", "resource_set_palette", "element_add",
       "resource_read_data", "update_submit_sync", "element_remove",
       "display_close", "resource_delete_src", "resource_delete_dest",
       "picture_CopyProperties", "picture_Release", "return" >>

\* the statements with the destination resource deleted before the source
ProgramDeleteDestFirst ==
    << "resource_create_dest", "display_open_offscreen", "img_type",
       "update_start", "resource_create_src", "resource_write_data",
       "palette_convert", "resource_set_palette", "element_add",
       "update_submit_sync", "resource_read_data", "element_remove",
       "display_close", "resource_delete_dest", "resource_delete_src",
       "picture_CopyProperties", "picture_Release", "return" >>

\* the statements with the input picture released before its properties are
\* copied
ProgramReleaseEarly ==
    << "resource_create_dest", "display_open_offscreen", "img_type",
       "update_start", "resource_create_src", "resource_write_data",
       "palette_convert", "resource_set_palette", "element_add",
       "update_submit_sync", "resource_read_data", "element_remove",
       "display_close", "resource_delete_src", "resource_delete_dest",
       "picture_Release", "picture_CopyProperties", "return" >>

Program ==
    << "resource_create_dest",      \* 120-121
       "display_open_offscreen",    \* 123-124
       "img_type",                  \* 126-143
       "update_start",              \* 145
       "resource_create_src",       \* 148-150
       "resource_write_data",       \* 151-152
       "palette_convert",           \* 157-163
       "resource_set_palette",      \* 164
       "element_add",               \* 167-173
       "update_submit_sync",        \* 176
       "resource_read_data",        \* 179-180
       "element_remove",            \* 183
       "display_close",             \* 184
       "resource_delete_src",       \* 185
       "resource_delete_dest",      \* 186
       "picture_CopyProperties",    \* 188
       "picture_Release",           \* 189
       "return" >>                  \* 190

\* the palette statements run whatever the input chroma is
PaletteGuardAny(chroma) == TRUE

\* line 155: the palette statements run for VLC_CODEC_YUVP only
PaletteGuard(chroma) == chroma = "YUVP"
Skipped(st) ==
    st \in {"palette_convert", "resource_set_palette"}
    /\ ~ PaletteGuard(fmt_in.i_chroma)

RECURSIVE StmtFrom(_)
StmtFrom(i) ==
    IF i > Len(Program) THEN "idle"
    ELSE IF Skipped(Program[i]) THEN StmtFrom(i + 1)
    ELSE Program[i]
\* the statement executed after statement st
NextStmt(st) ==
    LET i == CHOOSE k \in 1..Len(Program) : Program[k] = st
    IN  StmtFrom(i + 1)

\* results of an accelerator call: it fails when it is handed an invalid
\* handle, and it can fail on its own (at most MaxFaults times per call of
\* Filter); Filter looks at neither
Outcomes(argsValid) ==
    IF argsValid
    THEN {[ok |-> TRUE, fault |-> 0]} \cup
         (IF nFaults < MaxFaults THEN {[ok |-> FALSE, fault |-> 1]} ELSE {})
    ELSE {[ok |-> FALSE, fault |-> 0]}

\* a teardown call does what it is asked whenever its handle is live
Teardown(argsValid) == {[ok |-> argsValid, fault |-> 0]}

\* one accelerator call of Filter: op, given args, with outcome o
StepArgs(op, o, args) ==
    /\ pc = op
    /\ pc' = NextStmt(op)
    /\ log' = Append(log, [op |-> op, ok |-> o.ok, args |-> args])
    /\ nFaults' = nFaults + o.fault
    /\ UNCHANGED <<fmt_out, fmt_req, pic, pic_dst, ret, picReleases, outcome, prev, p_palette>>
    /\ UNCHANGED fmtVars /\ UNCHANGED convVars /\ UNCHANGED aoutVars /\ UNCHANGED raceVars

\* an accelerator call whose arguments the model does not look at
Step(op, o) == StepArgs(op, o, <<>>)

\* lines 120-121: dest_res = vc_dispmanx_resource_create(VC_IMAGE_RGBA32, ...)
ResourceCreateDest ==
    \E o \in Outcomes(TRUE) :
        /\ StepArgs("resource_create_dest", o,
                    <<"VC_IMAGE_RGBA32", fmt_out.i_width, fmt_out.i_height>>)
        /\ live' = IF o.ok THEN live \cup {"dest_res"} ELSE live
        /\ nCreate' = nCreate + 1
        /\ UNCHANGED <<img_type, palette, src_palette, nDelete>>

\* lines 123-124: display = vc_dispmanx_display_open_offscreen(dest_res, ...)
DisplayOpenOffscreen ==
    \E o \in Outcomes("dest_res" \in live) :
        /\ Step("display_open_offscreen", o)
        /\ live' = IF o.ok THEN live \cup {"display"} ELSE live
        /\ UNCHANGED <<img_type, palette, src_palette, nCreate, nDelete>>

\* the image type with the VLC_CODEC_YUVA case of lines 128-129 left out
ImgTypeOfNoYUVA(chroma) ==
    IF chroma = "YUVP" THEN "VC_IMAGE_8BPP"
    ELSE "VC_IMAGE_RGBA32"

\* lines 126-132
ImgTypeOf(chroma) ==
    IF chroma = "YUVP" THEN "VC_IMAGE_8BPP"
    ELSE IF chroma = "YUVA" THEN "VC_IMAGE_YUV420"
    ELSE "VC_IMAGE_RGBA32"

\* lines 126-143: img_type, pitches, sizes and rectangles; no call is made
SelectImgType ==
    /\ pc = "img_type"
    /\ pc' = NextStmt("img_type")
    /\ img_type' = ImgTypeOf(fmt_in.i_chroma)
    /\ UNCHANGED <<fmt_out, fmt_req, pic, pic_dst, ret, picReleases, outcome, prev, p_palette,
                   log, nFaults, live, palette, src_palette,
                   nCreate, nDelete>>
    /\ UNCHANGED fmtVars /\ UNCHANGED convVars /\ UNCHANGED aoutVars /\ UNCHANGED raceVars

\* line 145: update = vc_dispmanx_update_start(0)
UpdateStart ==
    \E o \in Outcomes(TRUE) :
        /\ Step("update_start", o)
        /\ live' = IF o.ok THEN live \cup {"update"} ELSE live
        /\ UNCHANGED <<img_type, palette, src_palette, nCreate, nDelete>>

\* lines 148-150: src_res = vc_dispmanx_resource_create(img_type, ...)
ResourceCreateSrc ==
    \E o \in Outcomes(TRUE) :
        /\ StepArgs("resource_create_src", o,
                    <<img_type, fmt_in.i_width, fmt_in.i_height>>)
        /\ live' = IF o.ok THEN live \cup {"src_res"} ELSE live
        /\ nCreate' = nCreate + 1
        /\ UNCHANGED <<img_type, palette, src_palette, nDelete>>

\* lines 151-152: vc_dispmanx_resource_write_data(src_res, ..., pic pixels)
ResourceWriteData ==
    \E o \in Outcomes("src_res" \in live) :
        /\ StepArgs("resource_write_data", o, <<img_type, pic>>)
        /\ UNCHANGED <<img_type, palette, src_palette, live, nCreate, nDelete>>

\* lines 157-163: the loop that fills palette[0 .. i_entries-1]; the slots
\* from i_entries on keep what earlier calls left in the static buffer
PaletteConvert ==
    /\ pc = "palette_convert"
    /\ pc' = NextStmt("palette_convert")
    /\ \E conv \in ConvertSeq(p_palette) :
          palette' = [i \in 1..PALETTE_SIZE |->
                         IF i <= Len(conv) THEN conv[i] ELSE palette[i]]
    /\ UNCHANGED <<fmt_out, fmt_req, pic, pic_dst, ret, picReleases, outcome, prev, p_palette,
                   log, nFaults, live, img_type, src_palette,
                   nCreate, nDelete>>
    /\ UNCHANGED fmtVars /\ UNCHANGED convVars /\ UNCHANGED aoutVars /\ UNCHANGED raceVars

\* line 164: vc_dispmanx_resource_set_palette(src_res, palette, 0,
\* sizeof(palette)): the whole buffer is handed over
ResourceSetPalette ==
    \E o \in Outcomes("src_res" \in live) :
        /\ Step("resource_set_palette", o)
        /\ src_palette' = IF o.ok THEN palette ELSE src_palette
        /\ UNCHANGED <<img_type, palette, live, nCreate, nDelete>>

\* lines 167-173: src_el = vc_dispmanx_element_add(update, display, ...,
\* src_res, ...)
ElementAdd ==
    \E o \in Outcomes({"update", "display", "src_res"} \subseteq live) :
        /\ StepArgs("element_add", o, <<fmt_out.i_width, fmt_out.i_height>>)
        /\ live' = IF o.ok THEN live \cup {"src_el"} ELSE live
        /\ UNCHANGED <<img_type, palette, src_palette, nCreate, nDelete>>

\* line 176: vc_dispmanx_update_submit_sync(update); a submitted update is
\* over, its handle is no longer valid
UpdateSubmitSync ==
    \E o \in Outcomes("update" \in live) :
        /\ Step("update_submit_sync", o)
        /\ live' = IF o.ok THEN live \ {"update"} ELSE live
        /\ UNCHANGED <<img_type, palette, src_palette, nCreate, nDelete>>

\* lines 179-180: vc_dispmanx_resource_read_data(dest_res, ..., pic_dst pixels)
ResourceReadData ==
    \E o \in Outcomes("dest_res" \in live) :
        /\ StepArgs("resource_read_data", o, <<fmt_out.i_width, fmt_out.i_height>>)
        /\ UNCHANGED <<img_type, palette, src_palette, live, nCreate, nDelete>>

\* line 183: vc_dispmanx_element_remove(update, src_el).  A removal is part
\* of an update: with the update open it is carried out; with the update
\* handle no longer valid the accelerator may refuse it or may still carry
\* it out
ElementRemoveOutcomes(elementLive, updateOpen) ==
    IF ~ elementLive THEN {[ok |-> FALSE, fault |-> 0]}
    ELSE IF updateOpen THEN {[ok |-> TRUE, fault |-> 0]}
    ELSE {[ok |-> TRUE, fault |-> 0], [ok |-> FALSE, fault |-> 0]}

ElementRemove ==
    \E o \in ElementRemoveOutcomes("src_el" \in live, "update" \in live) :
        /\ Step("element_remove", o)
        /\ live' = IF o.ok THEN live \ {"src_el"} ELSE live
        /\ UNCHANGED <<img_type, palette, src_palette, nCreate, nDelete>>

\* line 184: vc_dispmanx_display_close(display)
DisplayClose ==
    \E o \in Teardown("display" \in live) :
        /\ Step("display_close", o)
        /\ live' = live \ {"display"}
        /\ UNCHANGED <<img_type, palette, src_palette, nCreate, nDelete>>

\* line 185: vc_dispmanx_resource_delete(src_res)
ResourceDeleteSrc ==
    \E o \in Teardown("src_res" \in live) :
        /\ Step("resource_delete_src", o)
        /\ live' = live \ {"src_res"}
        /\ nDelete' = nDelete + 1
        /\ UNCHANGED <<img_type, palette, src_palette, nCreate>>

\* line 186: vc_dispmanx_resource_delete(dest_res)
ResourceDeleteDest ==
    \E o \in Teardown("dest_res" \in live) :
        /\ Step("resource_delete_dest", o)
        /\ live' = live \ {"dest_res"}
        /\ nDelete' = nDelete + 1
        /\ UNCHANGED <<img_type, palette, src_palette, nCreate>>

\* line 188: picture_CopyProperties(pic_dst, pic) reads the input picture
PictureCopyProperties ==
    /\ pc = "picture_CopyProperties"
    /\ pc' = NextStmt("picture_CopyProperties")
    /\ log' = Append(log, [op |-> "picture_CopyProperties", ok |-> TRUE,
                           args |-> <<pic>>])
    /\ UNCHANGED <<fmt_out, fmt_req, prev, pic, pic_dst, ret, picReleases, outcome,
                   img_type, p_palette, palette, src_palette,
                   live, nFaults, nCreate, nDelete>>
    /\ UNCHANGED fmtVars /\ UNCHANGED convVars /\ UNCHANGED aoutVars /\ UNCHANGED raceVars

\* line 189: picture_Release(pic)
PictureRelease ==
    /\ pc = "picture_Release"
    /\ pc' = NextStmt("picture_Release")
    /\ pic' = "released"
    /\ picReleases' = picReleases + 1
    /\ log' = Append(log, [op |-> "picture_Release", ok |-> TRUE,
                           args |-> <<pic>>])
    /\ UNCHANGED <<fmt_out, fmt_req, prev, pic_dst, ret, outcome,
                   img_type, p_palette, palette, src_palette,
                   live, nFaults, nCreate, nDelete>>
    /\ UNCHANGED fmtVars /\ UNCHANGED convVars /\ UNCHANGED aoutVars /\ UNCHANGED raceVars

\* line 190: return pic_dst
FilterReturn ==
    /\ pc = "return"
    /\ pc' = NextStmt("return")
    /\ ret' = "pic_dst"
    /\ outcome' = "done"
    /\ UNCHANGED <<fmt_out, fmt_req, prev, pic, pic_dst, picReleases, img_type,
                   p_palette, palette, src_palette,
                   live, log, nFaults, nCreate, nDelete>>
    /\ UNCHANGED fmtVars /\ UNCHANGED convVars /\ UNCHANGED aoutVars /\ UNCHANGED raceVars

(***************************************************************************)
(* The filter as its owner sets it up before OpenFilter: any chroma pair,  *)
(* any orientations, any sizes; no call made yet.                          *)
(***************************************************************************)
VideoFormats ==
    [i_chroma : Chromas, orientation : Orientations,
     i_width : Dims, i_height : Dims]

\* the palette conversion check is at rest in the filter's behaviours
ConvIdle == entry = <<>> /\ word = <<>>

\* the dummy audio output is at rest in the filter's behaviours
AoutIdle ==
    /\ pf_setformat = "NULL"
    /\ pf_play = "NULL"
    /\ output = [i_format |-> "none", i_nb_samples |-> 0,
                 i_bytes_per_frame |-> 0, i_frame_length |-> 0]
    /\ fifo = <<>>
    /\ fifo_in = <<>>
    /\ freed = <<>>
    /\ nPlay = 0

\* no concurrent calls are modelled in the filter's sequential behaviours
RaceIdle == thr = <<>>

\* the filter with formats fi and fo, before OpenFilter
InitFilter(fi, fo) ==
    /\ fmt_in = fi
    /\ fmt_out = fo
    /\ fmt_req = fo
    /\ pf_video_filter = "NULL"
    /\ bcm_host_inited = FALSE
    /\ open_ret = "none"
    /\ pc = "idle"
    /\ outcome = "none"
    /\ prev = "none"
    /\ pic = "NULL"
    /\ pic_dst = "NULL"
    /\ ret = "none"
    /\ picReleases = 0
    /\ img_type = "none"
    /\ p_palette = <<>>
    /\ palette = [i \in 1..PALETTE_SIZE |-> ZeroWord]
    /\ src_palette = <<>>
    /\ live = {}
    /\ log = <<>>
    /\ nFaults = 0
    /\ nCreate = 0
    /\ nDelete = 0

Init ==
    /\ \E fi \in VideoFormats :
       \E fo \in {f \in VideoFormats : f.i_chroma \in {"RGBA", "RGB32", "I420"}} :
           InitFilter(fi, fo)
    /\ ConvIdle
    /\ AoutIdle
    /\ RaceIdle

Next ==
    \/ OpenFilter
    \/ \E p \in {"NULL", "held"} : FilterFastReject(p)
    \/ \E p \in {"NULL", "held"}, pal \in Palettes : FilterScaleCrop(p, pal)
    \/ \E ok \in BOOLEAN : NewPicture(ok)
    \/ ResourceCreateDest
    \/ DisplayOpenOffscreen
    \/ SelectImgType
    \/ UpdateStart
    \/ ResourceCreateSrc
    \/ ResourceWriteData
    \/ PaletteConvert
    \/ ResourceSetPalette
    \/ ElementAdd
    \/ UpdateSubmitSync
    \/ ResourceReadData
    \/ ElementRemove
    \/ DisplayClose
    \/ ResourceDeleteSrc
    \/ ResourceDeleteDest
    \/ PictureCopyProperties
    \/ PictureRelease
    \/ FilterReturn

Spec == Init /\ [][Next]_vars

(***************************************************************************)
(* The filter on frames whose size and requested box have unequal aspect   *)
(* ratios: 4x3 into 16x9 is 640x480 into 1920x1080 divided by its common   *)
(* factors, 3x2 into 2x2 has no whole-pixel box of ratio 3:2.              *)
(***************************************************************************)
CropInputs == { <<4, 3>>, <<3, 2>>, <<2, 1>>, <<1, 1>> }
CropBoxes == { <<16, 9>>, <<4, 3>>, <<2, 2>>, <<1, 2>> }

InitCrop ==
    /\ \E c \in {"YUVP", "RGBA"}, i \in CropInputs, o \in CropBoxes :
           InitFilter([i_chroma |-> c, orientation |-> "NORMAL",
                       i_width |-> i[1], i_height |-> i[2]],
                      [i_chroma |-> "RGBA", orientation |-> "NORMAL",
                       i_width |-> o[1], i_height |-> o[2]])
    /\ ConvIdle
    /\ AoutIdle
    /\ RaceIdle

SpecCrop == InitCrop /\ [][Next]_vars

(***************************************************************************)
(* The palette conversion on its own: one entry <<Y, U, V, A>> drawn from  *)
(* every luma and the sampled chroma and alpha values, converted as the    *)
(* loop body of lines 158-162 converts it.                                 *)
(***************************************************************************)
ConvEntries == { <<y, u, v, a>> : y \in Bytes, u \in SampleChroma,
                                  v \in SampleChroma, a \in SampleAlpha }

ConvertEntry ==
    /\ entry # <<>>
    /\ word = <<>>
    /\ word' \in ConvertOutcomes(entry)
    /\ UNCHANGED <<fmt_in, fmt_out, fmt_req, pf_video_filter, bcm_host_inited,
                   open_ret, pc, outcome, prev, pic, pic_dst, ret, picReleases,
                   img_type, p_palette, palette, src_palette, live,
                   log, nFaults, nCreate, nDelete, entry>>
    /\ UNCHANGED aoutVars /\ UNCHANGED raceVars

InitConvert ==
    /\ InitFilter([i_chroma |-> "YUVP", orientation |-> "NORMAL",
                   i_width |-> 1, i_height |-> 1],
                  [i_chroma |-> "RGBA", orientation |-> "NORMAL",
                   i_width |-> 1, i_height |-> 1])
    /\ entry \in ConvEntries
    /\ word = <<>>
    /\ AoutIdle
    /\ RaceIdle

NextConvert == ConvertEntry

SpecConvert == InitConvert /\ [][NextConvert]_vars

(***************************************************************************)
(* The dummy audio output, aout.c.  The FIFO is given some buffers, each   *)
(* buffer once; OpenAudio installs SetFormat and Play, and Play is then    *)
(* called any number of times, on an empty FIFO too.                       *)
(***************************************************************************)
Buffers == 1..MaxBuffers
AoutFormats == {"AOUT_FMT_SPDIF", "AOUT_FMT_S16_NE"}

\* the sequences of distinct elements of S
RECURSIVE DistinctSeqs(_)
DistinctSeqs(S) ==
    {<<>>} \cup UNION { { <<x>> \o q : q \in DistinctSeqs(S \ {x}) } : x \in S }

\* lines 47-55
OpenAudio ==
    /\ pf_play = "NULL"
    /\ pf_setformat' = "SetFormat"
    /\ pf_play' = "Play"
    /\ UNCHANGED <<output, fifo, fifo_in, freed, nPlay>>
    /\ UNCHANGED <<fmt_in, fmt_out, fmt_req, pf_video_filter, bcm_host_inited,
                   open_ret, pc, outcome, prev, pic, pic_dst, ret, picReleases,
                   img_type, p_palette, palette, src_palette, live,
                   log, nFaults, nCreate, nDelete, entry, word, thr>>

\* lines 60-73
SetFormat ==
    /\ pf_setformat = "SetFormat"
    /\ IF output.i_format = "AOUT_FMT_SPDIF"
       THEN output' = [output EXCEPT !.i_nb_samples = A52_FRAME_NB,
                                     !.i_bytes_per_frame = "AOUT_SPDIF_SIZE",
                                     !.i_frame_length = A52_FRAME_NB]
       ELSE output' = [output EXCEPT !.i_nb_samples = FRAME_SIZE]
    /\ UNCHANGED <<pf_setformat, pf_play, fifo, fifo_in, freed, nPlay>>
    /\ UNCHANGED <<fmt_in, fmt_out, fmt_req, pf_video_filter, bcm_host_inited,
                   open_ret, pc, outcome, prev, pic, pic_dst, ret, picReleases,
                   img_type, p_palette, palette, src_palette, live,
                   log, nFaults, nCreate, nDelete, entry, word, thr>>

\* aout_FifoPop: the first buffer of the FIFO, 0 (NULL) when it is empty,
\* and the FIFO without it
aout_FifoPop(f) ==
    IF f = <<>> THEN [p_buffer |-> 0, fifo |-> f]
    ELSE [p_buffer |-> Head(f), fifo |-> Tail(f)]

\* aout_BufferFree: the freed buffers after p_buffer is given to it
aout_BufferFree(fr, p_buffer) ==
    IF p_buffer = 0 THEN fr ELSE Append(fr, p_buffer)

\* Play with the aout_BufferFree of line 81 left out
PlayNoFree ==
    /\ pf_play = "Play"
    /\ nPlay <= MaxBuffers
    /\ fifo' = aout_FifoPop(fifo).fifo
    /\ freed' = freed
    /\ nPlay' = nPlay + 1
    /\ UNCHANGED <<pf_setformat, pf_play, output, fifo_in>>
    /\ UNCHANGED <<fmt_in, fmt_out, fmt_req, pf_video_filter, bcm_host_inited,
                   open_ret, pc, outcome, prev, pic, pic_dst, ret, picReleases,
                   img_type, p_palette, palette, src_palette, live,
                   log, nFaults, nCreate, nDelete, entry, word, thr>>

\* lines 78-82
Play ==
    /\ pf_play = "Play"
    /\ nPlay <= MaxBuffers
    /\ fifo' = aout_FifoPop(fifo).fifo
    /\ freed' = aout_BufferFree(freed, aout_FifoPop(fifo).p_buffer)
    /\ nPlay' = nPlay + 1
    /\ UNCHANGED <<pf_setformat, pf_play, output, fifo_in>>
    /\ UNCHANGED <<fmt_in, fmt_out, fmt_req, pf_video_filter, bcm_host_inited,
                   open_ret, pc, outcome, prev, pic, pic_dst, ret, picReleases,
                   img_type, p_palette, palette, src_palette, live,
                   log, nFaults, nCreate, nDelete, entry, word, thr>>

InitAout ==
    /\ InitFilter([i_chroma |-> "YUVP", orientation |-> "NORMAL",
                   i_width |-> 1, i_height |-> 1],
                  [i_chroma |-> "RGBA", orientation |-> "NORMAL",
                   i_width |-> 1, i_height |-> 1])
    /\ ConvIdle
    /\ pf_setformat = "NULL"
    /\ pf_play = "NULL"
    /\ \E f \in AoutFormats :
           output = [i_format |-> f, i_nb_samples |-> 0,
                     i_bytes_per_frame |-> 0, i_frame_length |-> 0]
    /\ fifo \in DistinctSeqs(Buffers)
    /\ fifo_in = fifo
    /\ freed = <<>>
    /\ nPlay = 0
    /\ RaceIdle

NextAout ==
    \/ OpenAudio
    \/ SetFormat
    \/ Play

SpecAout == InitAout /\ [][NextAout]_vars

(***************************************************************************)
(* Two calls of Filter on YUVP pictures in two threads, each at the        *)
(* palette statements of lines 155-165.  i, yuv_pal and fmt_in are each    *)
(* call's own; palette is the one function-static buffer of line 81.  The  *)
(* threads take turns word by word: a store of the loop body, or the read  *)
(* of one word by vc_dispmanx_resource_set_palette.                        *)
(***************************************************************************)
Threads == {1, 2}

\* lines 157-162: one turn of the loop of thread t
LoopBody(t) ==
    /\ thr # <<>>
    /\ thr[t].pc = "loop"
    /\ thr[t].i < Len(thr[t].p_palette)
    /\ \E w \in ConvertOutcomes(thr[t].p_palette[thr[t].i + 1]) :
           palette' = [palette EXCEPT ![thr[t].i + 1] = w]
    /\ thr' = [thr EXCEPT ![t].i = thr[t].i + 1]
    /\ UNCHANGED <<fmt_in, fmt_out, fmt_req, pf_video_filter, bcm_host_inited,
                   open_ret, pc, outcome, prev, pic, pic_dst, ret, picReleases,
                   img_type, p_palette, src_palette, live,
                   log, nFaults, nCreate, nDelete, entry, word>>
    /\ UNCHANGED aoutVars

\* line 164: vc_dispmanx_resource_set_palette takes the next word of the
\* buffer; thread t is done when it has taken sizeof(palette)
SetPalette(t) ==
    /\ thr # <<>>
    /\ \/ thr[t].pc = "set_palette"
       \/ thr[t].pc = "loop" /\ thr[t].i = Len(thr[t].p_palette)
    /\ thr' = [thr EXCEPT
                 ![t].pushed = Append(thr[t].pushed,
                                      palette[Len(thr[t].pushed) + 1]),
                 ![t].pc = IF Len(thr[t].pushed) + 1 = PALETTE_SIZE
                           THEN "done" ELSE "set_palette"]
    /\ UNCHANGED <<fmt_in, fmt_out, fmt_req, pf_video_filter, bcm_host_inited,
                   open_ret, pc, outcome, prev, pic, pic_dst, ret, picReleases,
                   img_type, p_palette, palette, src_palette, live,
                   log, nFaults, nCreate, nDelete, entry, word>>
    /\ UNCHANGED aoutVars

InitRace ==
    /\ InitFilter([i_chroma |-> "YUVP", orientation |-> "NORMAL",
                   i_width |-> 1, i_height |-> 1],
                  [i_chroma |-> "RGBA", orientation |-> "NORMAL",
                   i_width |-> 1, i_height |-> 1])
    /\ ConvIdle
    /\ AoutIdle
    /\ \E p1 \in Palettes, p2 \in Palettes :
           /\ p1 # p2
           /\ thr = [t \in Threads |->
                        [pc |-> "loop", i |-> 0,
                         p_palette |-> IF t = 1 THEN p1 ELSE p2,
                         pushed |-> <<>>]]

NextRace ==
    \/ \E t \in Threads : LoopBody(t)
    \/ \E t \in Threads : SetPalette(t)

SpecRace == InitRace /\ [][NextRace]_vars

(***************************************************************************)
(* Properties.                                                             *)
(***************************************************************************)
ZeroGeometry(f) == f.i_width = 0 \/ f.i_height = 0

\* a step that starts a call of Filter
CallStep == pc = "idle" /\ open_ret' = open_ret /\ vars' # vars

\* C1: OpenFilter returns VLC_SUCCESS exactly when the input chroma is one
\* of YUVP, YUVA, RGB32, RGBA, the output chroma is RGBA and the two
\* orientations are equal; it returns VLC_EGENERIC for everything else.
C1_FormatGate ==
    open_ret # "none" =>
        ( open_ret = "VLC_SUCCESS"
          <=> ( /\ fmt_in.i_chroma \in {"YUVP", "YUVA", "RGB32", "RGBA"}
                /\ fmt_out.i_chroma = "RGBA"
                /\ fmt_in.orientation = fmt_out.orientation ) )

C1_Witness ==
    /\ open_ret = "VLC_SUCCESS"
    /\ fmt_in.i_chroma = "RGB32"
    /\ fmt_in.orientation = "ROTATED_90"

C3_FailureReturnsNull ==
    (Returned /\ nFaults > 0) =>
        (live = {} /\ pic = "released" /\ ret = "NULL")

\* C4: a call of Filter with a picture that returns at the size tests of
\* lines 103-109 has released the picture and returns NULL.
C4_DegenerateGeometryReleases ==
    [][ (CallStep /\ pc' = "idle" /\ pic' # "NULL")
        => (pic' = "released" /\ ret' = "NULL") ]_vars

\* C5: a call of Filter with a NULL picture, or with a zero input or output
\* width or height, returns NULL at once: no accelerator call, no output
\* picture requested, fmt_out untouched.
C5_FastRejectNoEffect ==
    [][ ( /\ CallStep
          /\ (pic' = "NULL" \/ ZeroGeometry(fmt_in) \/ ZeroGeometry(fmt_out)) )
        => ( /\ pc' = "idle"
             /\ ret' = "NULL"
             /\ log' = <<>>
             /\ live' = {}
             /\ nCreate' = 0
             /\ nDelete' = 0
             /\ pic_dst' = "NULL"
             /\ fmt_out' = fmt_out ) ]_vars

C5_Witness ==
    /\ pc = "idle"
    /\ outcome = "reject"
    /\ pic = "held"
    /\ ZeroGeometry(fmt_out)
    /\ ~ ZeroGeometry(fmt_in)

\* C6: when filter_NewPicture fails, Filter releases the input picture
\* exactly once, returns NULL and has made no accelerator call; and a call
\* that follows a failed allocation and gets its output picture runs the
\* whole sequence up to the read-back and returns the output picture.
C6_AllocFailureStep ==
    (pc = "NewPicture" /\ pc' = "idle")
    => ( /\ pic' = "released"
         /\ picReleases' = 1
         /\ ret' = "NULL"
         /\ log' = <<>>
         /\ live' = {}
         /\ nCreate' = 0
         /\ pf_video_filter' = "Filter" )
C6_NextCallCompletes ==
    ( /\ prev = "nomem"
      /\ pc = "idle"
      /\ pic_dst = "allocated" )
    => ( /\ ret = "pic_dst"
         /\ pic = "released"
         /\ picReleases = 1
         /\ Len(log) > 0
         /\ Called("resource_delete_dest")
         /\ \E i \in 1..Len(log) : log[i].op = "resource_read_data" )
C6_AllocFailure == [][C6_AllocFailureStep]_vars /\ []C6_NextCallCompletes

C6_Witness ==
    /\ prev = "nomem"
    /\ pc = "idle"
    /\ ret = "pic_dst"
    /\ nFaults = 0

\* C7: in every call of Filter, with or without a failing accelerator
\* call, element_remove comes before display_close, display_close before
\* the delete of the source resource, and that before the delete of the
\* destination resource; a call that returns a picture has made all four.
C7_TeardownOrder ==
    /\ Called("display_close") => Before("element_remove", "display_close")
    /\ Called("resource_delete_src") =>
           Before("display_close", "resource_delete_src")
    /\ Called("resource_delete_dest") =>
           /\ Before("display_close", "resource_delete_dest")
           /\ Before("resource_delete_src", "resource_delete_dest")
    /\ (pc = "idle" /\ ret = "pic_dst") => Called("resource_delete_dest")

C7_Witness ==
    /\ pc = "idle"
    /\ ret = "pic_dst"
    /\ nFaults > 0
    /\ Called("element_remove")
    /\ Called("resource_delete_dest")

\* C8: in a call of Filter in which no accelerator call fails, the pixels
\* (and for YUVP the palette) are written to the source resource before
\* element_add, element_add comes before update_submit_sync, and the
\* read-back comes after update_submit_sync has returned, at a time when
\* the destination resource is not deleted and the display is not closed.
C8_ReadBackAfterSubmit ==
    /\ (Called("resource_read_data") /\ nFaults = 0) =>
          /\ Before("resource_write_data", "element_add")
          /\ fmt_in.i_chroma = "YUVP" =>
                 Before("resource_set_palette", "element_add")
          /\ Before("element_add", "update_submit_sync")
          /\ Before("update_submit_sync", "resource_read_data")
          /\ Succeeded("update_submit_sync")
          /\ Succeeded("resource_read_data")
    /\ (pc = "resource_read_data" /\ nFaults = 0) =>
          /\ Succeeded("update_submit_sync")
          /\ "update" \notin live
          /\ {"dest_res", "display"} \subseteq live
          /\ ~ Called("display_close")
          /\ ~ Called("resource_delete_dest")

C8_Witness ==
    /\ pc = "idle"
    /\ ret = "pic_dst"
    /\ nFaults = 0
    /\ fmt_in.i_chroma = "YUVP"
    /\ Succeeded("resource_read_data")

\* C9: every entry <<Y, U, V, A>> converts to the word whose bytes are, from
\* bits 24-31 down to bits 0-7, A and the three channel values
\* 1.164(Y-16) + 2.018(U-128), 1.164(Y-16) - 0.813(V-128) - 0.391(U-128),
\* 1.163(Y-16) + 1.596(V-128), each truncated toward zero and reduced
\* modulo 256.
C9_PaletteWordWraps ==
    word # <<>> =>
        word = << entry[4],
                  Trunc1000(1164 * (entry[1] - 16) + 2018 * (entry[2] - 128)) % 256,
                  Trunc1000(1164 * (entry[1] - 16) - 813 * (entry[3] - 128)
                            - 391 * (entry[2] - 128)) % 256,
                  Trunc1000(1163 * (entry[1] - 16) + 1596 * (entry[3] - 128)) % 256 >>

\* C10: with U = V = 128 and Y in 16..235 the three channel values are in
\* 0..255 before the cast, so the word carries them unwrapped, and A
\* unchanged; <<235, 128, 128, 255>> converts to alpha 255 and channels
\* within 2 of 255, <<16, 128, 128, 0>> to alpha 0 and channels within 2
\* of 0.
C10_NeutralChromaInRange ==
    (word # <<>> /\ entry[2] = 128 /\ entry[3] = 128 /\ entry[1] \in 16..235) =>
        /\ word[1] = entry[4]
        /\ \A i \in 2..4 : word[i] \in 0..255
        /\ word[2] * 1000 <= 1164 * (entry[1] - 16)
        /\ 1164 * (entry[1] - 16) < (word[2] + 1) * 1000
        /\ word[3] * 1000 <= 1164 * (entry[1] - 16)
        /\ 1164 * (entry[1] - 16) < (word[3] + 1) * 1000
        /\ word[4] * 1000 <= 1163 * (entry[1] - 16)
        /\ 1163 * (entry[1] - 16) < (word[4] + 1) * 1000
        /\ entry = <<235, 128, 128, 255>> =>
               (word[1] = 255 /\ \A i \in 2..4 : Abs(word[i] - 255) <= 2)
        /\ entry = <<16, 128, 128, 0>> =>
               (word[1] = 0 /\ \A i \in 2..4 : Abs(word[i]) <= 2)

C10_Witness ==
    /\ entry = <<235, 128, 128, 255>>
    /\ word = <<255, 254, 254, 254>>

\* C12: every accelerator call of Filter is made with the accelerator host
\* initialised: Filter is installed only by an OpenFilter that accepts, and
\* that OpenFilter has initialised the host before installing it; an
\* OpenFilter that rejects neither initialises the host nor installs Filter.
C12_InitBeforeUse ==
    /\ (Len(log) > 0 \/ pc # "idle") => bcm_host_inited
    /\ pf_video_filter = "Filter" =>
           (bcm_host_inited /\ open_ret = "VLC_SUCCESS")
    /\ open_ret = "VLC_EGENERIC" =>
           (~ bcm_host_inited /\ pf_video_filter = "NULL")
    /\ open_ret = "none" => (~ bcm_host_inited /\ pf_video_filter = "NULL")

C12_Witness ==
    /\ Called("element_add")
    /\ bcm_host_inited
    /\ open_ret = "VLC_SUCCESS"

\* the calls of Filter that are given the size of the output
SizedOps == {"resource_create_dest", "element_add", "resource_read_data"}
\* the width and height a logged call was given
SizeOf(e) ==
    IF e.op = "resource_create_dest" THEN <<e.args[2], e.args[3]>> ELSE e.args

\* w x h is inside the box requested of the current call
FitsRequest(w, h) == w <= fmt_req.i_width /\ h <= fmt_req.i_height
\* the input and the requested box have different aspect ratios
AspectDiffers ==
    fmt_in.i_width * fmt_req.i_height # fmt_req.i_width * fmt_in.i_height
\* w : h is the aspect ratio of the input, exactly
SameAspect(w, h) == w * fmt_in.i_height = h * fmt_in.i_width
\* one side of w x h is the requested side and the other is the proportional
\* length cut down to whole pixels
AspectUpToPixel(w, h) ==
    \/ /\ h = fmt_req.i_height
       /\ w * fmt_in.i_height <= fmt_req.i_height * fmt_in.i_width
       /\ fmt_req.i_height * fmt_in.i_width < (w + 1) * fmt_in.i_height
    \/ /\ w = fmt_req.i_width
       /\ h * fmt_in.i_width <= fmt_req.i_width * fmt_in.i_height
       /\ fmt_req.i_width * fmt_in.i_height < (h + 1) * fmt_in.i_width

C13_PlayPopsAndFrees ==
    /\ nPlay <= Len(fifo_in) =>
           /\ Len(fifo) = Len(fifo_in) - nPlay
           /\ freed = SubSeq(fifo_in, 1, nPlay)
    /\ freed \o fifo = fifo_in

C13_Witness ==
    /\ nPlay = 3
    /\ Len(fifo_in) = 3
    /\ fifo = <<>>
    /\ freed = fifo_in

\* the four objects of a call: the call that acquires each and the call
\* that releases it
Objects == {"dest_res", "display", "src_res", "src_el"}
Acquire(x) ==
    CASE x = "dest_res" -> "resource_create_dest"
      [] x = "display" -> "display_open_offscreen"
      [] x = "src_res" -> "resource_create_src"
      [] x = "src_el" -> "element_add"
Release(x) ==
    CASE x = "dest_res" -> "resource_delete_dest"
      [] x = "display" -> "display_close"
      [] x = "src_res" -> "resource_delete_src"
      [] x = "src_el" -> "element_remove"
\* x was acquired before y and both have been released
AcquiredBeforeBothReleased(x, y) ==
    /\ Called(Release(x)) /\ Called(Release(y))
    /\ Before(Acquire(x), Acquire(y))

\* C14 as stated: when a call has returned, of any two of the destination
\* resource, the offscreen display, the source resource and the composed
\* element, the one acquired first was released last.
C14_ReverseRelease ==
    Returned =>
        \A x \in Objects, y \in Objects :
            AcquiredBeforeBothReleased(x, y) => Before(Release(y), Release(x))

\* C14, amended: when a call has returned, the one acquired first was
\* released last for every pair but the offscreen display and the source
\* resource; the display, opened before the source resource is created, was
\* closed before the source resource is deleted.
C14_ReverseReleaseButDisplay ==
    Returned =>
        \A x \in Objects, y \in Objects :
            AcquiredBeforeBothReleased(x, y) =>
                IF x = "display" /\ y = "src_res"
                THEN Before(Release(x), Release(y))
                ELSE Before(Release(y), Release(x))

C14_Witness ==
    /\ Returned
    /\ \A x \in Objects : Succeeded(Acquire(x)) /\ Called(Release(x))
    /\ Before("display_close", "resource_delete_src")
    /\ Before("resource_delete_src", "resource_delete_dest")

\* the static buffer starts with a conversion of the palette of fmt_in
PaletteConverted ==
    \E conv \in ConvertSeq(p_palette) :
        \A i \in 1..Len(conv) : palette[i] = conv[i]

\* C15: the palette is converted and handed to the source resource exactly
\* in the calls whose input chroma is YUVP; in those calls the hand-over
\* comes after the creation of the source resource and before the element
\* is added.
C15_PaletteOnlyForIndexed ==
    /\ pc \in {"palette_convert", "resource_set_palette"} =>
           fmt_in.i_chroma = "YUVP"
    /\ (Returned /\ outcome = "done") =>
           /\ Called("resource_set_palette") <=> fmt_in.i_chroma = "YUVP"
           /\ fmt_in.i_chroma = "YUVP" =>
                  /\ PaletteConverted
                  /\ Before("resource_create_src", "resource_set_palette")
                  /\ Before("resource_set_palette", "element_add")
           /\ fmt_in.i_chroma # "YUVP" => src_palette = <<>>

C15_Witness ==
    /\ Returned /\ outcome = "done"
    /\ fmt_in.i_chroma = "YUVP"
    /\ Len(p_palette) = 1
    /\ Succeeded("resource_set_palette")
    /\ src_palette = palette
    /\ Before("resource_create_src", "resource_set_palette")
    /\ Before("resource_set_palette", "element_add")

\* the image type the accelerator is to be given for an input chroma
MappedImageType(chroma) ==
    CASE chroma = "YUVP" -> "VC_IMAGE_8BPP"
      [] chroma = "YUVA" -> "VC_IMAGE_YUV420"
      [] chroma \in {"RGB32", "RGBA"} -> "VC_IMAGE_RGBA32"

\* C16: the source resource is created, and the input pixels are written
\* into it, with the image type mapped from the input chroma (YUVP to 8BPP,
\* YUVA to YUV420, RGB32 and RGBA to RGBA32); the destination resource is
\* always created as RGBA32.
C16_ImageTypes ==
    \A i \in 1..Len(log) :
        /\ log[i].op \in {"resource_create_src", "resource_write_data"} =>
               log[i].args[1] = MappedImageType(fmt_in.i_chroma)
        /\ log[i].op = "resource_create_dest" =>
               log[i].args[1] = "VC_IMAGE_RGBA32"

C16_Witness ==
    /\ fmt_in.i_chroma = "YUVA"
    /\ \E i \in 1..Len(log) :
           log[i].op = "resource_create_dest" /\ log[i].ok
           /\ log[i].args[1] = "VC_IMAGE_RGBA32"
    /\ \E i \in 1..Len(log) :
           log[i].op = "resource_create_src" /\ log[i].ok
           /\ log[i].args[1] = "VC_IMAGE_YUV420"
    /\ \E i \in 1..Len(log) :
           log[i].op = "resource_write_data" /\ log[i].ok
           /\ log[i].args[1] = "VC_IMAGE_YUV420"

\* the calls of Filter that read the input picture
PicReaders == {"resource_write_data", "picture_CopyProperties"}

\* C17: when a call of Filter has returned the output picture, the input
\* picture has been released exactly once, after the upload of its pixels
\* and after the copy of its properties, which both found it unreleased,
\* and the release is the last thing the call did before it returned.
C17_InputReleasedLast ==
    (Returned /\ ret = "pic_dst") =>
        /\ picReleases = 1
        /\ pic = "released"
        /\ log[Len(log)].op = "picture_Release"
        /\ \A i \in 1..Len(log) :
               log[i].op \in PicReaders =>
                   /\ log[i].args[Len(log[i].args)] = "held"
                   /\ i < Pos(log, "picture_Release")
        /\ \A op \in PicReaders : Called(op)

C17_Witness ==
    /\ Returned /\ ret = "pic_dst"
    /\ picReleases = 1
    /\ Before("resource_write_data", "picture_CopyProperties")
    /\ Before("picture_CopyProperties", "picture_Release")
    /\ log[Len(log)].op = "picture_Release"

\* the accelerator calls that are given the update handle
UpdateUsers == {"element_add", "element_remove"}

\* C18: no call uses the update handle once the update has been submitted:
\* every element_add and element_remove comes after the update_start that
\* made the handle and not after the update_submit_sync that consumes it.
C18_NoUseAfterSubmit ==
    \A op \in UpdateUsers :
        Called(op) =>
            /\ Before("update_start", op)
            /\ ~ Before("update_submit_sync", op)

\* the buffer a call pushes when nothing but the conversion conv of its own
\* palette is in it
OwnPaletteOnly(conv) ==
    [i \in 1..PALETTE_SIZE |-> IF i <= Len(conv) THEN conv[i] ELSE ZeroWord]

\* C19: the palette data a call pushes to the source resource is determined
\* by the palette of that call alone, whatever earlier calls converted: it
\* is the conversion of the n entries of its palette and nothing of another
\* palette behind them.
C19_PushDependsOnlyOnInput ==
    src_palette # <<>> =>
        \E conv \in ConvertSeq(p_palette) : src_palette = OwnPaletteOnly(conv)

\* C20: of two calls on YUVP pictures with different palettes running in
\* two threads, each pushes the conversion of its own palette and nothing
\* the other call converted.
C20_EachPushesOwn ==
    thr # <<>> =>
        \A t \in Threads :
            thr[t].pc = "done" =>
                \E conv \in ConvertSeq(thr[t].p_palette) :
                    thr[t].pushed = OwnPaletteOnly(conv)

====
